---- MODULE Spec2Model ----
(***************************************************************************)
(* Flight-dynamics integrator (fly::Airplane), chase camera (fly::Camera)  *)
(* and the main loop that drives them.                                     *)
(*                                                                         *)
(* Floats are fixed-point integers:                                        *)
(*   directions            Scale units per 1.0                             *)
(*   positions, velocities PosScale units per 1.0                          *)
(*   target speed          SpeedScale units per 1.0                        *)
(*   m_rotationMatrix      FineScale units per 1.0                         *)
(*   time                  milliseconds                                    *)
(* Vectors are 3-tuples; NaNVec (the empty tuple) is a non-numeric vector.   *)
(***************************************************************************)
EXTENDS Integers, Sequences, FiniteSets, TLC

VARIABLES aircraft, camera, main, hist

vars == <<aircraft, camera, main, hist>>

(***************************************************************************)
(* Number representation                                                   *)
(***************************************************************************)
Scale == 20000
PosScale == 1000
SpeedScale == 2000
FineScale == 100000000

\* dt passed by the component-level specifications (ms), and the bounds
StepMs == 300
MaxPending == 1
MaxRange == 300
MaxRotates == 1
MaxTracks == 3
MaxTurns == 3
MaxClock == 70
MaxTicks == 5400
MaxArgs == 3

\* program constants
FramePeriodMs == 16
DebounceMs == 500
SleepMs == 17
PiOver3 == 104719755
PiOver4 == 78539816
PiOver6 == 52359878
TurnRadius == 3800
AngleMin == 1000
SpeedMin == 0
SpeedMax == 3

Abs(x) == IF x < 0 THEN -x ELSE x
Sign(x) == IF x > 0 THEN 1 ELSE IF x < 0 THEN -1 ELSE 0
Min(a, b) == IF a < b THEN a ELSE b
Max(a, b) == IF a > b THEN a ELSE b

\* a / b rounded to nearest, b > 0
RoundDiv(a, b) == (2 * a + b) \div (2 * b)

\* sqrt(n) rounded to nearest, 0 <= n < 2^31; the root is found by bisection
Sqrt(n) ==
    LET search[m \in Nat, lo \in Nat, hi \in Nat] ==
            IF lo >= hi THEN (IF m - lo * lo > lo THEN lo + 1 ELSE lo)
            ELSE IF ((lo + hi + 1) \div 2) * ((lo + hi + 1) \div 2) <= m
                 THEN search[m, (lo + hi + 1) \div 2, hi]
                 ELSE search[m, lo, ((lo + hi + 1) \div 2) - 1]
    IN  search[n, 0, 46340]

(***************************************************************************)
(* glm::vec3                                                                *)
(***************************************************************************)
NaNVec == <<>>
IsNaN(v) == Len(v) = 0

Vec(x, y, z) == <<x, y, z>>
VAdd(a, b) == IF IsNaN(a) \/ IsNaN(b) THEN NaNVec
              ELSE <<a[1] + b[1], a[2] + b[2], a[3] + b[3]>>
VSub(a, b) == IF IsNaN(a) \/ IsNaN(b) THEN NaNVec
              ELSE <<a[1] - b[1], a[2] - b[2], a[3] - b[3]>>
\* v * (num / den)
VScale(v, num, den) == IF IsNaN(v) THEN NaNVec
                       ELSE <<RoundDiv(v[1] * num, den), RoundDiv(v[2] * num, den),
                              RoundDiv(v[3] * num, den)>>
Dot(a, b) == a[1] * b[1] + a[2] * b[2] + a[3] * b[3]
Cross(a, b) == IF IsNaN(a) \/ IsNaN(b) THEN NaNVec
               ELSE <<RoundDiv(a[2] * b[3] - a[3] * b[2], Scale),
                      RoundDiv(a[3] * b[1] - a[1] * b[3], Scale),
                      RoundDiv(a[1] * b[2] - a[2] * b[1], Scale)>>
LenSq(v) == Dot(v, v)
Length(v) == Sqrt(LenSq(v))
\* glm::normalize: v / |v|; 0/0 is NaN
Normalize(v) ==
    LET unit[w \in Seq(Int)] ==
            IF IsNaN(w) \/ LenSq(w) = 0 THEN NaNVec
            ELSE LET over[len \in Nat] == VScale(w, Scale, len) IN over[Length(w)]
    IN  unit[v]

(***************************************************************************)
(* glm::mat3 arithmetic of m_rotationMatrix, 1.0 = FineScale                *)
(***************************************************************************)
\* a * b rounded to the nearest unit, |a|, |b| <= about 1.7 * FineScale and one of
\* them <= FineScale (the product is formed in halves to stay within 32 bits)
FineMul(a, b) ==
    LET mul[x \in Int, y \in Int] ==
            (x \div 10000) * (y \div 10000)
            + ((x \div 10000) * (y % 10000) + (x % 10000) * (y \div 10000)
               + ((x % 10000) * (y % 10000) + FineScale \div 2) \div 10000) \div 10000
    IN  mul[a, b]

FineDot(a, b) == FineMul(a[1], b[1]) + FineMul(a[2], b[2]) + FineMul(a[3], b[3])

\* glm::normalize of a column of m_rotationMatrix, whose length is within 1e-3 of 1:
\* with e = |v|^2 - 1, v / |v| = v * (1 - e/2 + 3e^2/8) to within 1e-8
FineNormalize(v) ==
    LET unit[w \in Seq(Int)] ==
            LET over[e \in Int] ==
                    LET k == FineScale - e \div 2 + (3 * FineMul(e, e)) \div 8
                    IN  <<FineMul(w[1], k), FineMul(w[2], k), FineMul(w[3], k)>>
            IN  over[FineDot(w, w) - FineScale]
    IN  unit[v]

\* std::sin, std::cos of a small angle (|a| < 0.04): a - a^3/6, 1 - a^2/2 + a^4/24
FineSin(a) == LET f[x \in Int] == x - FineMul(FineMul(x, x), x) \div 6 IN f[a]
FineCos(a) ==
    LET f[x \in Int] ==
            FineScale - FineMul(x, x) \div 2 + FineMul(FineMul(x, x), FineMul(x, x)) \div 24
    IN  f[a]

\* c * p + s * q, by component
FineMix(p, c, q, s) ==
    LET mix[v \in Seq(Int), w \in Seq(Int), cc \in Int, ss \in Int] ==
            <<FineMul(v[1], cc) + FineMul(w[1], ss), FineMul(v[2], cc) + FineMul(w[2], ss),
              FineMul(v[3], cc) + FineMul(w[3], ss)>>
    IN  mix[p, q, c, s]

\* glm::rotate(m, angle, {1, 0, 0}) = m * Rx: column 0 kept
FineRotateX(m, angle) ==
    LET by[mm \in Seq(Seq(Int)), c \in Int, sn \in Int] ==
            <<mm[1], FineMix(mm[2], c, mm[3], sn), FineMix(mm[3], c, mm[2], -sn)>>
        rot[mm \in Seq(Seq(Int)), a \in Int] == by[mm, FineCos(a), FineSin(a)]
    IN  rot[m, angle]

\* glm::rotate(m, angle, {0, 1, 0}) = m * Ry: column 1 kept
FineRotateY(m, angle) ==
    LET by[mm \in Seq(Seq(Int)), c \in Int, sn \in Int] ==
            <<FineMix(mm[1], c, mm[3], -sn), mm[2], FineMix(mm[3], c, mm[1], sn)>>
        rot[mm \in Seq(Seq(Int)), a \in Int] == by[mm, FineCos(a), FineSin(a)]
    IN  rot[m, angle]

\* glm::rotate(m, angle, inverse(m) * {0, 0, 1}): every column turned about the
\* world vertical
FineRotateVertical(m, angle) ==
    LET turn[v \in Seq(Int), c \in Int, sn \in Int] ==
            <<FineMul(v[1], c) - FineMul(v[2], sn), FineMul(v[1], sn) + FineMul(v[2], c), v[3]>>
        by[mm \in Seq(Seq(Int)), c \in Int, sn \in Int] ==
            <<turn[mm[1], c, sn], turn[mm[2], c, sn], turn[mm[3], c, sn]>>
        rot[mm \in Seq(Seq(Int)), a \in Int] == by[mm, FineCos(a), FineSin(a)]
    IN  rot[m, angle]

\* m_forward, m_left, m_up = glm::normalize(m_rotationMatrix[0..2])
Refresh(m) == <<FineNormalize(m[1]), FineNormalize(m[2]), FineNormalize(m[3])>>

\* a FineScale vector in Scale units, and back
Coarse(v) == <<RoundDiv(v[1], FineScale \div Scale), RoundDiv(v[2], FineScale \div Scale),
               RoundDiv(v[3], FineScale \div Scale)>>
Fine(v) == <<v[1] * (FineScale \div Scale), v[2] * (FineScale \div Scale),
             v[3] * (FineScale \div Scale)>>

(***************************************************************************)
(* fly::Airplane                                                           *)
(***************************************************************************)
\* Orientation frames (the columns of m_rotationMatrix) the model samples.
Attitude(f, l, u) == [forward |-> f, left |-> l, up |-> u]
Level == Attitude(<<Scale, 0, 0>>, <<0, Scale, 0>>, <<0, 0, Scale>>)
NearLevel == Attitude(<<Scale, 0, 1>>, <<0, Scale, 0>>, <<-1, 0, Scale>>)
Pitched == Attitude(<<16000, 0, 12000>>, <<0, Scale, 0>>, <<-12000, 0, 16000>>)
Banked == Attitude(<<Scale, 0, 0>>, <<0, 16000, 12000>>, <<0, -12000, 16000>>)
BankedTurned == Attitude(<<0, Scale, 0>>, <<-16000, 0, 12000>>, <<12000, 0, 16000>>)
Turned == Attitude(<<0, Scale, 0>>, <<-Scale, 0, 0>>, <<0, 0, Scale>>)
Attitudes == {Level, NearLevel, Pitched, Banked, BankedTurned, Turned}

\* glm::rotate(m_rotationMatrix, angle, axis) multiplies on the right: a rotation about
\* {1,0,0} keeps column 0 (forward), one about {0,1,0} keeps column 1 (left), and one
\* about the world vertical (inverse(m_rotationMatrix) * {0,0,direction}) keeps the z
\* component of every column.
RollTargets(att) == {b \in Attitudes : b.forward = att.forward}
PitchTargets(att) == {b \in Attitudes : b.left = att.left}
YawTargets(att) == {b \in Attitudes : /\ b.forward[3] = att.forward[3]
                                       /\ b.left[3] = att.left[3]
                                       /\ b.up[3] = att.up[3]}

\* Velocities the force integration is sampled at (PosScale units per second).
Velocities == {<<PosScale, 0, 0>>, <<-PosScale, 0, 0>>}

StartPosition == <<0, 0, 1200>>

AirplaneInit ==
    [m_position |-> StartPosition,
     m_forward  |-> <<Scale, 0, 0>>,
     m_up       |-> <<0, 0, Scale>>,
     m_left     |-> <<0, Scale, 0>>,
     m_speed    |-> SpeedScale,
     m_velocity |-> <<PosScale, PosScale, PosScale>>,
     m_rotationMatrix |-> <<<<FineScale, 0, 0>>, <<0, FineScale, 0>>, <<0, 0, FineScale>>>>,
     m_aileron  |-> 0,
     m_elevator |-> 0,
     m_throttle |-> 0]

AttitudeOf(a) == Attitude(a.m_forward, a.m_left, a.m_up)

\* roll / elevate / throttle: the pending delta is added to
Pend(cur, d) == cur + d
roll(a, d)     == [a EXCEPT !.m_aileron  = Pend(a.m_aileron, d)]
elevate(a, d)  == [a EXCEPT !.m_elevator = Pend(a.m_elevator, d)]
throttle(a, d) == [a EXCEPT !.m_throttle = Pend(a.m_throttle, d)]

ClampSpeedNoUpperBound(s) == Max(SpeedMin * SpeedScale, s)

ThrottleStepIgnored(a, dt) == [a EXCEPT !.m_throttle = 0]

ThrottleStepKept(a, dt) ==
    [a EXCEPT !.m_speed = Min(Max(SpeedMin * SpeedScale, a.m_speed + a.m_throttle * dt),
                              SpeedMax * SpeedScale)]

\* std::min(std::max(0.f, m_speed), 3.f)
ClampSpeed(s) == Min(Max(SpeedMin * SpeedScale, s), SpeedMax * SpeedScale)

\* if (m_throttle) { m_speed += 0.5 * m_throttle * dt; clamp; m_throttle = 0; }
\* 0.5 * dt[ms] / 1000 * SpeedScale = dt
ThrottleStep(a, dt) ==
    IF a.m_throttle # 0
    THEN [a EXCEPT !.m_speed = ClampSpeed(a.m_speed + a.m_throttle * dt),
                   !.m_throttle = 0]
    ELSE a

\* std::abs(dAngleX) > 1e-5, with dAngleX = pi/3 * aileron * dt when rolling and
\* sign(up.z) * -sign(left.z) * sqrt(|left.z|) * pi/6 * dt otherwise:
\* |left.z|/Scale * (pi/6)^2 * (dt/1000)^2 > 1e-10  <=>  |left.z| * dt^2 > 7.29
RollApplied(a, dt) ==
    IF a.m_aileron # 0
    THEN dt > 0
    ELSE Sign(a.m_up[3]) # 0 /\ Abs(a.m_left[3]) * dt * dt > 7

\* std::abs(dAngleY) > 1e-5, with dAngleY = pi/4 * (1 - left.z^4) * elevator * dt
\* when commanded ((Scale - lz4) * dt > 254.6 in fixed point) and
\* sign(up.z) * sign(forward.z) * sqrt(|forward.z|) * pi/4 * dt otherwise
\* (|forward.z| * dt^2 > 3.24)
PitchApplied(a, dt) ==
    IF a.m_elevator # 0
    THEN LET lz2 == (a.m_left[3] * a.m_left[3]) \div Scale
             lz4 == (lz2 * lz2) \div Scale
         IN  (Scale - lz4) * dt > 254
    ELSE Sign(a.m_up[3]) # 0 /\ Abs(a.m_forward[3]) * dt * dt > 3

\* sine >= 0.1 with sine = sqrt(1 - up.z^2), and
\* sign(cross(m_velocity, centripetal).z) != 0 where centripetal is along (up.x, up.y, 0)
\* (no comparison with a non-number is true)
YawApplied(att, velocity) ==
    /\ Scale * Scale - att.up[3] * att.up[3] >= (Scale \div 10) * (Scale \div 10)
    /\ ~IsNaN(velocity)
    /\ velocity[1] * att.up[2] - velocity[2] * att.up[1] # 0

\* the airspace the model flies in
InRange(p) == IF IsNaN(p) THEN TRUE
              ELSE \A i \in 1..3 : p[i] - StartPosition[i] \in 0..MaxRange

\* drag = -glm::normalize(m_velocity) * 15 * glm::dot(m_velocity, m_velocity), in
\* position units: not a number when m_velocity is (or was made) one, or is zero
Drag(velocity) ==
    IF IsNaN(velocity) THEN NaNVec
    ELSE VScale(Normalize(velocity), -15 * (LenSq(velocity) \div PosScale), Scale * PosScale)

\* m_velocity += (thrust + drag + gravity + lift) * dt: the velocities it can leave,
\* sampled while the sum is a number
Integrated(a) == IF IsNaN(Drag(a.m_velocity)) THEN {NaNVec} ELSE Velocities

ClearControlsElevatorOnly(a) == [a EXCEPT !.m_elevator = 0]

\* m_aileron = m_elevator = 0
ClearControls(a) == [a EXCEPT !.m_aileron = 0, !.m_elevator = 0]

\* The frames lines 41-82 can leave: roll, pitch, refresh, banked-turn yaw, refresh.
\* An applied rotation leaves the frame at a sampled frame it can lead to.
Frames(a, dt) ==
    LET rolled == IF RollApplied(a, dt) THEN RollTargets(AttitudeOf(a)) ELSE {AttitudeOf(a)}
        pitched == IF PitchApplied(a, dt)
                   THEN UNION {PitchTargets(r) : r \in rolled} ELSE rolled
    IN  UNION { IF YawApplied(p, a.m_velocity) THEN YawTargets(p) ELSE {p} : p \in pitched }

\* Airplane::update(dt): the set of states it can leave the aircraft in.  The
\* rotation angles and the force sum are sampled (Frames, Velocities); everything
\* else is computed.
update(a, dt) ==
    LET t == ThrottleStep(a, dt)
    IN  { ClearControls([t EXCEPT !.m_forward = att.forward,
                                  !.m_left = att.left,
                                  !.m_up = att.up,
                                  !.m_rotationMatrix = <<Fine(att.forward), Fine(att.left),
                                                         Fine(att.up)>>,
                                  !.m_velocity = v,
                                  !.m_position = VAdd(a.m_position, VScale(v, dt, 1000))]) :
            att \in Frames(a, dt), v \in Integrated(a) }

\* sqrt(x) of 0 <= x <= 1, to 1e-4
FineSqrt(x) == Sqrt(Max(0, x)) * 10000

\* dAngleX (lines 41-45) and dAngleY (lines 49-53), of the frame update is entered with
AngleX(a, entry, dt) ==
    IF a.m_aileron # 0
    THEN FineMul(PiOver3, dt * (FineScale \div 1000)) * a.m_aileron
    ELSE Sign(entry[3][3]) * (-Sign(entry[2][3]))
         * FineMul(FineMul(FineSqrt(Abs(entry[2][3])), PiOver6), dt * (FineScale \div 1000))

AngleY(a, entry, dt) ==
    LET bank[lz2 \in Int] ==
            FineMul(FineMul(PiOver4, FineScale - FineMul(lz2, lz2)), dt * (FineScale \div 1000))
    IN  IF a.m_elevator # 0
        THEN bank[FineMul(entry[2][3], entry[2][3])] * a.m_elevator
        ELSE Sign(entry[3][3]) * Sign(entry[1][3])
             * FineMul(FineMul(FineSqrt(Abs(entry[1][3])), PiOver4), dt * (FineScale \div 1000))

\* the angle of the banked turn (lines 66-75), of the frame after roll and pitch
AngleYaw(velocity, up, dt) ==
    IF IsNaN(velocity) THEN 0
    ELSE Sign(velocity[1] * Coarse(up)[2] - velocity[2] * Coarse(up)[1])
         * ((FineMul(FineMul(FineSqrt(FineScale - FineMul(up[3], up[3])),
                             dt * (FineScale \div 1000)),
                     Length(velocity) * (FineScale \div PosScale))
             * 10) \div (TurnRadius \div 100))

\* Airplane::update(dt) for a tick (dt of about 1/60 s) with the rotations computed
\* on m_rotationMatrix; the force sum is sampled as in update.
updateComputed(a, dt) ==
    LET Matrix == Seq(Seq(Int))
        leave[yawed \in Matrix, last \in Matrix] ==
            { ClearControls([ThrottleStep(a, dt) EXCEPT
                                  !.m_forward = Coarse(last[1]),
                                  !.m_left = Coarse(last[2]),
                                  !.m_up = Coarse(last[3]),
                                  !.m_rotationMatrix = yawed,
                                  !.m_velocity = v,
                                  !.m_position = VAdd(a.m_position, VScale(v, dt, 1000))]) :
                v \in Integrated(a) }
        yawed[m \in Matrix] == leave[m, Refresh(m)]
        yaw[pitched \in Matrix, frame \in Matrix] ==
            IF YawApplied(Attitude(Coarse(frame[1]), Coarse(frame[2]), Coarse(frame[3])),
                          a.m_velocity)
            THEN yawed[FineRotateVertical(pitched, AngleYaw(a.m_velocity, frame[3], dt))]
            ELSE yawed[pitched]
        pitched[m \in Matrix] == yaw[m, Refresh(m)]
        pitch[rolled \in Matrix, dAngleY \in Int] ==
            IF Abs(dAngleY) > AngleMin THEN pitched[FineRotateY(rolled, dAngleY)]
            ELSE pitched[rolled]
        roll_[m \in Matrix, dAngleX \in Int, dAngleY \in Int] ==
            IF Abs(dAngleX) > AngleMin THEN pitch[FineRotateX(m, dAngleX), dAngleY]
            ELSE pitch[m, dAngleY]
        enter[m \in Matrix, entry \in Matrix] ==
            roll_[m, AngleX(a, entry, dt), AngleY(a, entry, dt)]
    IN  enter[a.m_rotationMatrix, Refresh(a.m_rotationMatrix)]

(***************************************************************************)
(* fly::Camera                                                             *)
(***************************************************************************)
\* 1e-4f in direction units
Epsilon == Scale \div 10000

\* cos(pi/6), sin(pi/6) in direction units; rotate() is sampled at x, y in 0..1
CosPi6 == 17321
SinPi6 == 10000
RotateInputs == {0, 1}
Cos(k) == IF k = 0 THEN Scale ELSE CosPi6
Sin(k) == k * SinPi6

\* a direction as an offset in position units
ToPos(d) == VScale(d, PosScale, Scale)

\* glm::lookAt(eye, center, up), kept as its arguments
LookAt(eye, center, up) == [eye |-> eye, center |-> center, up |-> up]

\* Camera::Camera(position, direction, up, airplane)
CameraInit(position, direction, up) ==
    [m_position    |-> position,
     m_direction   |-> direction,
     m_up          |-> up,
     m_timer       |-> 0,
     m_stationary  |-> TRUE,
     m_viewChanged |-> TRUE,
     m_view        |-> LookAt(position, VAdd(ToPos(direction), position), up)]

\* eye = m_position - normalize(m_direction) * 0.2f + vec3{0, 0, 1 - m_direction.z} * 0.06f
Eye(c) ==
    IF IsNaN(c.m_direction) THEN NaNVec
    ELSE VAdd(VSub(c.m_position, VScale(Normalize(c.m_direction), PosScale \div 5, Scale)),
              <<0, 0, RoundDiv((Scale - c.m_direction[3]) * 6 * (PosScale \div 100), Scale)>>)

GetViewAlwaysRecomputes(c) ==
    [cam |-> [c EXCEPT !.m_view = LookAt(Eye(c), c.m_position, c.m_up),
                       !.m_viewChanged = FALSE],
     recomputed |-> TRUE]

\* Camera::getView(): the camera it leaves, and whether it recomputed m_view;
\* the value returned is cam.m_view
getView(c) ==
    IF c.m_viewChanged
    THEN [cam |-> [c EXCEPT !.m_view = LookAt(Eye(c), c.m_position, c.m_up),
                            !.m_viewChanged = FALSE],
          recomputed |-> TRUE]
    ELSE [cam |-> c, recomputed |-> FALSE]

rotateDirtyWhenTurned(c, x, y) ==
    [c EXCEPT !.m_viewChanged = (@ \/ x # 0 \/ y # 0)]

\* Camera::rotate(x, y)
rotate(c, x, y) ==
    LET d1 == IF y # 0
              THEN Normalize(VAdd(VScale(c.m_direction, Cos(-y), Scale),
                                  VScale(c.m_up, Sin(-y), Scale)))
              ELSE c.m_direction
        cross == Normalize(Cross(d1, c.m_up))
        d2 == IF x # 0
              THEN Normalize(VAdd(VScale(d1, Cos(x), Scale), VScale(cross, Sin(x), Scale)))
              ELSE d1
    IN  [c EXCEPT !.m_direction = d2, !.m_viewChanged = TRUE]

\* float len_delta = 0.2f * dt, in direction units
LenDelta(dt) == (Scale * dt) \div 5000

\* len < bound and len >= bound; both are false of a non-numeric len
LenLess(v, bound) == ~IsNaN(v) /\ LenSq(v) < bound * bound
LenAtLeast(v, bound) == ~IsNaN(v) /\ LenSq(v) >= bound * bound

\* m_airplane.getForwardDirection() - m_direction
DeltaDirection(c, a) == VSub(a.m_forward, c.m_direction)

CorrectWhole(direction, delta, dt) == VAdd(direction, delta)

CorrectNoSnap(direction, delta, dt) ==
    LET add[by \in Seq(Int)] == VAdd(direction, by)
    IN  add[VScale(Normalize(delta), LenDelta(dt), Scale)]

\* if (len < len_delta) m_direction += delta_direction;
\* else m_direction += glm::normalize(delta_direction) * len_delta;
Correct(direction, delta, dt) ==
    LET step[m_direction \in Seq(Int), delta_direction \in Seq(Int)] ==
            IF LenLess(delta_direction, LenDelta(dt))
            THEN VAdd(m_direction, delta_direction)
            ELSE LET add[by \in Seq(Int)] == VAdd(m_direction, by)
                 IN  add[VScale(Normalize(delta_direction), LenDelta(dt), Scale)]
    IN  step[direction, delta]

CountDownSettles(c, delta, dt) ==
    [c EXCEPT !.m_timer = c.m_timer - dt,
              !.m_stationary = LenLess(delta, Epsilon)]

\* if (m_timer > 0.f) m_timer -= dt;
CountDown(c, delta, dt) == [c EXCEPT !.m_timer = c.m_timer - dt]

TrackNeverSettles(c, delta, dt) ==
    [c EXCEPT !.m_direction = Correct(c.m_direction, delta, dt)]

TrackRearms(c, delta, dt) ==
    [c EXCEPT !.m_direction = Correct(c.m_direction, delta, dt),
              !.m_timer = IF LenAtLeast(delta, LenDelta(dt)) THEN DebounceMs ELSE @,
              !.m_stationary = (c.m_stationary \/ LenLess(delta, Epsilon))]

\* else if (not m_stationary) { correct; if (len < 1e-4f) m_stationary = true; }
Track(c, delta, dt) ==
    [c EXCEPT !.m_direction = Correct(c.m_direction, delta, dt),
              !.m_stationary = (c.m_stationary \/ LenLess(delta, Epsilon))]

ArmStays(c) == [c EXCEPT !.m_timer = DebounceMs]

ArmForgotten(c) == [c EXCEPT !.m_stationary = FALSE]

\* else if (len >= 1e-4f && m_stationary) { m_timer = 0.5f; m_stationary = false; }
Arm(c) == [c EXCEPT !.m_timer = DebounceMs, !.m_stationary = FALSE]

MarkDirtyOnChange(c, c2) ==
    [c2 EXCEPT !.m_viewChanged = (c.m_viewChanged \/ c2.m_direction # c.m_direction
                                                  \/ c2.m_position # c.m_position)]

\* m_viewChanged = true; c is the camera as updateView found it
MarkDirty(c, c2) == [c2 EXCEPT !.m_viewChanged = TRUE]

\* Camera::updateView(dt), reading aircraft a
updateView(c, a, dt) ==
    LET delta_direction == DeltaDirection(c, a)
        placed == [c EXCEPT !.m_position = a.m_position]
        stepped ==
            IF c.m_timer > 0
            THEN CountDown(placed, delta_direction, dt)
            ELSE IF ~c.m_stationary
            THEN Track(placed, delta_direction, dt)
            ELSE IF LenAtLeast(delta_direction, Epsilon) /\ c.m_stationary
            THEN Arm(placed)
            ELSE placed
    IN  MarkDirty(c, stepped)

\* STATIONARY / DEBOUNCING / TRACKING
CameraState(c) ==
    IF c.m_stationary THEN "STATIONARY"
    ELSE IF c.m_timer > 0 THEN "DEBOUNCING" ELSE "TRACKING"

(***************************************************************************)
(* History of the calls made (not program state)                           *)
(***************************************************************************)
\* op: the kind of the last call.
\* pending: how many of aileron, elevator and throttle the last update found non-zero.
\* entry: what the last updateView found: the camera state, and whether |delta| was
\*   below 1e-4, and exactly zero, and whether the view was dirty.
\* jump: the debounce cycle.  It starts ("waiting") at an updateView that finds the
\*   camera stationary and |delta| >= 1e-4, with dir the look-direction then; elapsed
\*   is the sum of dt of the updateView calls since; the first updateView entered with
\*   the timer run out ends it ("corrected"), closer telling whether that call brought
\*   the look-direction nearer the forward direction; rotated: a rotate() came between.
\* view: had: getView has been called; touched / flown: rotate or updateView /
\*   Airplane::update was called since; repeat, same, recomputed, between: of the
\*   last getView, whether it followed a getView with no rotate or updateView between,
\*   returned the m_view it found (which only getView writes: the value the call
\*   before returned), recomputed m_view, and followed an Airplane::update made since
\*   the previous getView.
\* rotates, tracks, turns: the rotate calls that turned the camera, the updateView
\*   calls that found it tracking, and the update calls that turned the aircraft, so
\*   far (counted up to the bounds).
\* ticks: the updates of the aircraft whose rotations were computed, so far.
\* held: the direction of the roll or throttle key held down.
\* still: the last call of the camera was rotate(0, 0), on a view that was clean.
\* regained: the clock at the last GainedFocus event (at the start, before any).
\* swerve: "pending" once the aircraft's forward direction or the look-direction was
\*   changed while the camera was tracking, "followed" after the updateView made next.
HistInit ==
    [op |-> "construct",
     pending |-> 0,
     entry |-> [state |-> "STATIONARY", small |-> TRUE, zero |-> TRUE, dirty |-> TRUE],
     jump |-> [phase |-> "none", elapsed |-> 0, dir |-> <<Scale, 0, 0>>,
               rotated |-> FALSE, closer |-> FALSE],
     view |-> [had |-> FALSE, touched |-> FALSE, flown |-> FALSE,
               repeat |-> FALSE, same |-> FALSE, recomputed |-> FALSE,
               between |-> FALSE],
     rotates |-> 0,
     tracks |-> 0,
     turns |-> 0,
     ticks |-> 0,
     held |-> 0,
     still |-> FALSE,
     swerve |-> "none",
     regained |-> 0]

Pending(a) == Abs(Sign(a.m_aileron)) + Abs(Sign(a.m_elevator)) + Abs(Sign(a.m_throttle))

JumpAfter(c, c2, a, a2, dt) ==
    LET j == hist.jump
        d0 == DeltaDirection(c, a)
        d2 == DeltaDirection(c2, a2)
    IN  IF c.m_stationary /\ LenAtLeast(d0, Epsilon)
        THEN [phase |-> "waiting", elapsed |-> 0, dir |-> c.m_direction,
              rotated |-> FALSE, closer |-> FALSE]
        ELSE IF j.phase = "waiting"
        THEN [j EXCEPT !.elapsed = j.elapsed + dt,
                       !.phase = IF c.m_timer > 0 THEN "waiting" ELSE "corrected",
                       !.closer = /\ c.m_timer <= 0
                                  /\ \/ d0 = <<0, 0, 0>>
                                     \/ /\ ~IsNaN(d0) /\ ~IsNaN(d2)
                                        /\ LenSq(d2) < LenSq(d0)]
        ELSE IF j.phase = "corrected"
        THEN HistInit.jump
        ELSE j

(***************************************************************************)
(* main()                                                                  *)
(***************************************************************************)
\* pc: where main() stands: "events" (the pollEvent loop), "catchup" (the test of the
\*   inner while), "takeInput", "update", "updateView", "view" (the viewChanged poll),
\*   "draw" (shadow map, draw calls, display, prev_time += frame_period), "sleep",
\*   "exit".
\* clock: steady_clock, in ms since prev_time was first read.
\* view: the transform last handed to terrain, aircraft and sky.
\* tick: the calls made so far in the tick under way (or the last one), each with
\*   its dt and the aircraft position it left.
MainInit ==
    [pc |-> "events", running |-> TRUE, focus |-> TRUE,
     clock |-> 0, prev_time |-> 0, now |-> 0,
     view |-> LookAt(NaNVec, NaNVec, NaNVec),
     tick |-> <<>>]

Events == {"Closed", "GainedFocus", "LostFocus", "Resized"}

\* how late sf::sleep can return, ms
Lateness == {0, 15, 20}

\* The keys Controller::takeInput is sampled at: none or one held per call.
Keys == {"None", "RollLeft", "RollRight", "ElevatorUp", "ElevatorDown",
         "ThrustUp", "ThrustDown", "Rotate"}

\* the callbacks main() registers
CallbackAircraft(key, a) ==
    CASE key = "RollLeft"     -> roll(a, -1)
      [] key = "RollRight"    -> roll(a, 1)
      [] key = "ElevatorUp"   -> elevate(a, -1)
      [] key = "ElevatorDown" -> elevate(a, 1)
      [] key = "ThrustUp"     -> throttle(a, 1)
      [] key = "ThrustDown"   -> throttle(a, -1)
      [] OTHER                -> a

CallbackCamera(key, c) == IF key = "Rotate" THEN rotate(c, 1, 0) ELSE c

NextCallViewFirst(call) ==
    CASE call = "takeInput"  -> "updateView"
      [] call = "updateView" -> "update"
      [] call = "update"     -> "view"
      [] call = "view"       -> "draw"

\* the order of the statements of a tick
NextCall(call) ==
    CASE call = "takeInput"  -> "update"
      [] call = "update"     -> "updateView"
      [] call = "updateView" -> "view"
      [] call = "view"       -> "draw"

Called(call, a) == [call |-> call, dt |-> FramePeriodMs, at |-> a.m_position]

(***************************************************************************)
Directions == {-1, 1}

Roll(d) ==
    /\ Abs(aircraft.m_aileron + d) <= MaxPending
    /\ aircraft' = roll(aircraft, d)
    /\ hist' = [hist EXCEPT !.op = "control"]
    /\ UNCHANGED <<camera, main>>

Elevate(d) ==
    /\ Abs(aircraft.m_elevator + d) <= MaxPending
    /\ aircraft' = elevate(aircraft, d)
    /\ hist' = [hist EXCEPT !.op = "control"]
    /\ UNCHANGED <<camera, main>>

Throttle(d) ==
    /\ Abs(aircraft.m_throttle + d) <= MaxPending
    /\ aircraft' = throttle(aircraft, d)
    /\ hist' = [hist EXCEPT !.op = "control"]
    /\ UNCHANGED <<camera, main>>

Update(dt) ==
    /\ \E next \in update(aircraft, dt) :
          /\ InRange(next.m_position)
          /\ aircraft' = next
    /\ hist' = [hist EXCEPT !.op = "update",
                            !.turns = IF AttitudeOf(aircraft') = AttitudeOf(aircraft)
                                      THEN @ ELSE Min(@ + 1, MaxTurns),
                            !.pending = Pending(aircraft),
                            !.swerve = IF /\ CameraState(camera) = "TRACKING"
                                          /\ aircraft'.m_forward # aircraft.m_forward
                                       THEN "pending"
                                       ELSE IF @ = "pending" THEN @ ELSE "none",
                            !.view.flown = TRUE]
    /\ UNCHANGED <<camera, main>>

RotateView(x, y) ==
    /\ camera' = rotate(camera, x, y)
    /\ hist' = [hist EXCEPT !.op = "rotate",
                            !.rotates = IF camera'.m_direction = camera.m_direction
                                        THEN @ ELSE Min(@ + 1, MaxRotates),
                            !.view.touched = TRUE,
                            !.still = (x = 0 /\ y = 0 /\ ~camera.m_viewChanged),
                            !.swerve = IF /\ CameraState(camera) = "TRACKING"
                                          /\ camera'.m_direction # camera.m_direction
                                       THEN "pending"
                                       ELSE IF @ = "pending" THEN @ ELSE "none",
                            !.jump.rotated = (@ \/ hist.jump.phase = "waiting")]
    /\ UNCHANGED <<aircraft, main>>

UpdateView(dt) ==
    /\ camera' = updateView(camera, aircraft, dt)
    /\ hist' = [hist EXCEPT !.op = "updateView",
                            !.tracks = IF CameraState(camera) = "TRACKING"
                                       THEN Min(@ + 1, MaxTracks) ELSE @,
                            !.view.touched = TRUE,
                            !.still = FALSE,
                            !.swerve = IF @ = "pending" THEN "followed" ELSE "none",
                            !.entry = [state |-> CameraState(camera),
                                       small |-> LenLess(DeltaDirection(camera, aircraft), Epsilon),
                                       zero |-> DeltaDirection(camera, aircraft) = <<0, 0, 0>>,
                                       dirty |-> camera.m_viewChanged],
                            !.jump = JumpAfter(camera, camera', aircraft, aircraft, dt)]
    /\ UNCHANGED <<aircraft, main>>

GetView ==
    LET r == getView(camera)
    IN  /\ camera' = r.cam
        /\ hist' = [hist EXCEPT !.op = "getView",
                                !.still = FALSE,
                                !.view = [had |-> TRUE, touched |-> FALSE, flown |-> FALSE,
                                          repeat |-> hist.view.had /\ ~hist.view.touched,
                                          same |-> r.cam.m_view = camera.m_view,
                                          recomputed |-> r.recomputed,
                                          between |-> hist.view.flown]]
        /\ UNCHANGED <<aircraft, main>>

PollEventKeepsTimeBase(e) ==
    /\ main.pc = "events"
    /\ main' = CASE e = "Closed"      -> [main EXCEPT !.running = FALSE]
                 [] e = "GainedFocus" -> [main EXCEPT !.focus = TRUE]
                 [] e = "LostFocus"   -> [main EXCEPT !.focus = FALSE]
                 [] OTHER             -> main
    /\ main' # main
    /\ hist' = [hist EXCEPT !.regained = IF e = "GainedFocus" THEN main.clock ELSE @]
    /\ UNCHANGED <<aircraft, camera>>

\* while (window.pollEvent(event)) { ... }, one event
PollEvent(e) ==
    /\ main.pc = "events"
    /\ main' = CASE e = "Closed"      -> [main EXCEPT !.running = FALSE]
                 [] e = "GainedFocus" -> [main EXCEPT !.focus = TRUE, !.prev_time = main.clock]
                 [] e = "LostFocus"   -> [main EXCEPT !.focus = FALSE]
                 [] OTHER             -> main
    /\ main' # main
    /\ hist' = [hist EXCEPT !.regained = IF e = "GainedFocus" THEN main.clock ELSE @]
    /\ UNCHANGED <<aircraft, camera>>

\* the event queue is empty: auto now = steady_clock::now()
EventsDone ==
    /\ main.pc = "events"
    /\ main' = [main EXCEPT !.now = main.clock, !.pc = "catchup"]
    /\ UNCHANGED <<aircraft, camera, hist>>

\* while (focus && now - prev_time > frame_period)
CatchUp ==
    /\ main.pc = "catchup"
    /\ main' = IF main.focus /\ main.now - main.prev_time > FramePeriodMs
               THEN [main EXCEPT !.pc = "takeInput", !.tick = <<>>]
               ELSE [main EXCEPT !.pc = "sleep"]
    /\ UNCHANGED <<aircraft, camera, hist>>

\* controller.takeInput(frame_period_seconds)
TakeInput(key) ==
    /\ main.pc = "takeInput"
    /\ Abs(CallbackAircraft(key, aircraft).m_aileron) <= MaxPending
    /\ Abs(CallbackAircraft(key, aircraft).m_elevator) <= MaxPending
    /\ Abs(CallbackAircraft(key, aircraft).m_throttle) <= MaxPending
    /\ aircraft' = CallbackAircraft(key, aircraft)
    /\ camera' = CallbackCamera(key, camera)
    /\ main' = [main EXCEPT !.pc = NextCall("takeInput"),
                            !.tick = Append(@, Called("takeInput", aircraft'))]
    /\ UNCHANGED hist

\* aircraft.update(frame_period_seconds)
Fly ==
    /\ main.pc = "update"
    /\ \E next \in update(aircraft, FramePeriodMs) :
          /\ InRange(next.m_position)
          /\ aircraft' = next
    /\ main' = [main EXCEPT !.pc = NextCall("update"),
                            !.tick = Append(@, Called("update", aircraft'))]
    /\ UNCHANGED <<camera, hist>>

\* camera.updateView(frame_period_seconds)
Follow ==
    /\ main.pc = "updateView"
    /\ camera' = updateView(camera, aircraft, FramePeriodMs)
    /\ main' = [main EXCEPT !.pc = NextCall("updateView"),
                            !.tick = Append(@, Called("updateView", aircraft))]
    /\ UNCHANGED <<aircraft, hist>>

\* if (camera.viewChanged()) { view = camera.getView(); terrain.setView(view); ... }
PollView ==
    /\ main.pc = "view"
    /\ IF camera.m_viewChanged
       THEN /\ camera' = getView(camera).cam
            /\ main' = [main EXCEPT !.pc = NextCall("view"),
                                    !.view = getView(camera).cam.m_view,
                                    !.tick = Append(@, Called("getView", aircraft))]
       ELSE /\ camera' = camera
            /\ main' = [main EXCEPT !.pc = NextCall("view")]
    /\ UNCHANGED <<aircraft, hist>>

\* shadow map, draw calls, window.display(); prev_time += frame_period
Draw ==
    /\ main.pc = "draw"
    /\ main' = [main EXCEPT !.prev_time = @ + FramePeriodMs, !.pc = "catchup"]
    /\ UNCHANGED <<aircraft, camera, hist>>

\* sf::sleep(sf::seconds(1.f / 60.f)), then while (running)
Sleep(late) ==
    /\ main.pc = "sleep"
    /\ main.clock + SleepMs + late <= MaxClock
    /\ main' = [main EXCEPT !.clock = @ + SleepMs + late,
                            !.pc = IF main.running THEN "events" ELSE "exit"]
    /\ UNCHANGED <<aircraft, camera, hist>>

(***************************************************************************)
(* The command line                                                        *)
(***************************************************************************)
\* argv[1..]: strings, character by character
ArgFullscreen == <<"-", "f">>
ArgFullscreenLong == <<"-", "-", "f", "u", "l", "l", "s", "c", "r", "e", "e", "n">>
ArgWireframe == <<"-", "-", "w", "i", "r", "e", "f", "r", "a", "m", "e">>
ArgWidth == <<"-", "w">>
ArgWidthJoined == <<"-", "w", "6", "4">>
ArgHeight == <<"-", "H">>
ArgSeed == <<"-", "s">>
ArgHelp == <<"-", "h">>
ArgHelpLong == <<"-", "-", "h", "e", "l", "p">>
ArgNumber == <<"4", "8">>

\* the arguments the command lines of the model are made of
Arguments == {ArgFullscreen, ArgWireframe, ArgWidth, ArgWidthJoined, ArgHeight, ArgSeed,
              ArgHelp, ArgHelpLong, ArgNumber}

CommandLines == UNION {[1..n -> Arguments] : n \in 0..MaxArgs}

\* const Options DefaultOptions {0.f, 1024u, 720u, false, false, false, false}
DefaultOptions ==
    [seed |-> 0, windowWidth |-> 1024, windowHeight |-> 720, manualSeed |-> FALSE,
     wireframe |-> FALSE, showHelp |-> FALSE, fullscreen |-> FALSE]

\* arg.substr(0, 2), arg.substr(2)
Substr02(arg) == SubSeq(arg, 1, Min(2, Len(arg)))
Substr2(arg) == SubSeq(arg, 3, Len(arg))

Digit(c) == CASE c = "0" -> 0 [] c = "1" -> 1 [] c = "2" -> 2 [] c = "3" -> 3 [] c = "4" -> 4
              [] c = "5" -> 5 [] c = "6" -> 6 [] c = "7" -> 7 [] c = "8" -> 8 [] c = "9" -> 9
              [] OTHER -> -1

\* std::stoi, std::stol: the number the leading digits spell; -1 stands for the
\* std::invalid_argument thrown when there is none
RECURSIVE Digits(_, _, _)
Digits(str, i, sofar) ==
    IF i > Len(str) \/ Digit(str[i]) < 0 THEN sofar
    ELSE Digits(str, i + 1, 10 * sofar + Digit(str[i]))

Stoi(str) == IF Len(str) = 0 \/ Digit(str[1]) < 0 THEN -1 ELSE Digits(str, 1, 0)

IsHelpShortOnly(arg) == arg = ArgHelp

\* arg == "-h" || arg == "--help"
IsHelp(arg) == arg = ArgHelp \/ arg = ArgHelpLong

\* auto width = arg.substr(2); if (width.empty() && std::next(i) != end) width = *++i;
\* the string parsed, and the position it leaves i at
Parameter(arguments, i) ==
    IF Len(Substr2(arguments[i])) = 0 /\ i < Len(arguments)
    THEN [str |-> arguments[i + 1], at |-> i + 1]
    ELSE [str |-> Substr2(arguments[i]), at |-> i]

\* the for loop of processArguments, from argument i on
RECURSIVE ProcessFrom(_, _, _)
ProcessFrom(arguments, i, opts) ==
    IF i > Len(arguments) THEN opts
    ELSE LET arg == arguments[i]
             par == Parameter(arguments, i)
         IN  IF arg = ArgFullscreen \/ arg = ArgFullscreenLong
             THEN ProcessFrom(arguments, i + 1, [opts EXCEPT !.fullscreen = TRUE])
             ELSE IF arg = ArgWireframe
             THEN ProcessFrom(arguments, i + 1, [opts EXCEPT !.wireframe = TRUE])
             ELSE IF Substr02(arg) = ArgWidth
             THEN ProcessFrom(arguments, par.at + 1,
                              IF Stoi(par.str) < 0 THEN opts
                              ELSE [opts EXCEPT !.windowWidth = Stoi(par.str)])
             ELSE IF Substr02(arg) = ArgHeight
             THEN ProcessFrom(arguments, par.at + 1,
                              IF Stoi(par.str) < 0 THEN opts
                              ELSE [opts EXCEPT !.windowHeight = Stoi(par.str)])
             ELSE IF Substr02(arg) = ArgSeed
             THEN ProcessFrom(arguments, par.at + 1,
                              IF Stoi(par.str) < 0 THEN opts
                              ELSE [opts EXCEPT !.seed = Stoi(par.str), !.manualSeed = TRUE])
             ELSE IF IsHelp(arg)
             THEN [opts EXCEPT !.showHelp = TRUE]
             ELSE ProcessFrom(arguments, i + 1, opts)

\* Options processArguments(int argc, char** argv)
processArguments(arguments) == ProcessFrom(arguments, 1, DefaultOptions)

\* main() entered with a command line; the clock leaves time for one tick
ArgsInit(arguments) ==
    [pc |-> "arguments", args |-> arguments, opts |-> DefaultOptions, window |-> FALSE,
     status |-> "running", clock |-> MaxClock - SleepMs, prev_time |-> MaxClock - SleepMs]
    @@ MainInit

\* Options opts = processArguments(argc, argv)
ProcessArguments ==
    /\ main.pc = "arguments"
    /\ main' = [main EXCEPT !.opts = processArguments(main.args), !.pc = "options"]
    /\ UNCHANGED <<aircraft, camera, hist>>

\* if (opts.showHelp) { printHelp(); return EXIT_SUCCESS; }
ShowHelp ==
    /\ main.pc = "options"
    /\ main.opts.showHelp
    /\ main' = [main EXCEPT !.status = "EXIT_SUCCESS", !.pc = "exit"]
    /\ UNCHANGED <<aircraft, camera, hist>>

\* sf::Window window(...), the scene, aircraft and camera set up;
\* auto prev_time = steady_clock::now()
CreateWindow ==
    /\ main.pc = "options"
    /\ ~main.opts.showHelp
    /\ main' = [main EXCEPT !.window = TRUE, !.prev_time = main.clock, !.pc = "events"]
    /\ UNCHANGED <<aircraft, camera, hist>>

Init ==
    /\ aircraft = AirplaneInit
    /\ camera = CameraInit(AirplaneInit.m_position, AirplaneInit.m_forward, AirplaneInit.m_up)
    /\ main = MainInit
    /\ hist = HistInit

\* The flight-dynamics interface
Next ==
    \/ \E d \in Directions : Roll(d)
    \/ \E d \in Directions : Elevate(d)
    \/ \E d \in Directions : Throttle(d)
    \/ Update(StepMs)

Spec == Init /\ [][Next]_vars

\* Airplane::update entered in any sampled state of flight, the stall (zero velocity)
\* among them
StallSpeeds == {SpeedMin * SpeedScale, SpeedScale}
StallVelocities == Velocities \cup {<<0, 0, 0>>}

InitStall ==
    /\ \E att \in Attitudes, v \in StallVelocities, speed \in StallSpeeds :
          aircraft = [AirplaneInit EXCEPT !.m_forward = att.forward, !.m_left = att.left,
                                         !.m_up = att.up, !.m_velocity = v,
                                         !.m_rotationMatrix = <<Fine(att.forward),
                                                                Fine(att.left), Fine(att.up)>>,
                                         !.m_speed = speed]
    /\ camera = CameraInit(AirplaneInit.m_position, AirplaneInit.m_forward, AirplaneInit.m_up)
    /\ main = MainInit
    /\ hist = HistInit

SpecStall == InitStall /\ [][Next]_vars

\* aircraft.update(frame_period_seconds), the rotations computed
Turn ==
    /\ hist.ticks < MaxTicks
    /\ aircraft.m_aileron # 0
    /\ \E next \in updateComputed(aircraft, FramePeriodMs) :
          /\ next.m_velocity = <<PosScale, 0, 0>>
          /\ aircraft' = next
    /\ hist' = [hist EXCEPT !.op = "update",
                            !.pending = Pending(aircraft),
                            !.ticks = @ + 1,
                            !.view.flown = TRUE]
    /\ UNCHANGED <<camera, main>>

\* takeInput(window, aircraft) with a roll key held down: roll(d) before every
\* update, for the d of the key
Bank(d) ==
    /\ aircraft.m_aileron = 0
    /\ hist.ticks = 0 \/ d = hist.held
    /\ aircraft' = roll(aircraft, d)
    /\ hist' = [hist EXCEPT !.op = "control", !.held = d]
    /\ UNCHANGED <<camera, main>>

\* The aircraft flown along x with a roll key held down, tick after tick
NextDrift ==
    \/ \E d \in Directions : Bank(d)
    \/ Turn

SpecDrift == Init /\ [][NextDrift]_vars

\* throttle(d) with a throttle key held down: before every update, for the d of
\* the key
Sustain(d) ==
    /\ aircraft.m_throttle = 0
    /\ hist.held = 0 \/ d = hist.held
    /\ aircraft' = throttle(aircraft, d)
    /\ hist' = [hist EXCEPT !.op = "control", !.held = d]
    /\ UNCHANGED <<camera, main>>

\* update(dt) after the throttle call of the tick
Cruise ==
    /\ aircraft.m_throttle # 0
    /\ \E dt \in {FramePeriodMs, StepMs} : Update(dt)

NextThrottle ==
    \/ \E d \in Directions : Sustain(d)
    \/ Cruise

\* The program's loop runs tick after tick: neither call is put off for ever.
SpecThrottle ==
    /\ Init
    /\ [][NextThrottle]_vars
    /\ WF_vars(\E d \in Directions : Sustain(d))
    /\ WF_vars(Cruise)

\* The calls the bounded specifications allow
Flight ==
    /\ Update(StepMs)
    /\ AttitudeOf(aircraft') # AttitudeOf(aircraft) => hist.turns < MaxTurns

FreeLook(x, y) ==
    /\ RotateView(x, y)
    /\ camera'.m_direction # camera.m_direction => hist.rotates < MaxRotates

Chase ==
    /\ CameraState(camera) = "TRACKING" => hist.tracks < MaxTracks
    /\ UpdateView(StepMs)

\* The camera chasing an aircraft that is flown
NextCamera ==
    \/ \E d \in Directions : Elevate(d)
    \/ Flight
    \/ \E x, y \in RotateInputs : FreeLook(x, y)
    \/ Chase

SpecCamera == Init /\ [][NextCamera]_vars

\* The view cache of a camera that is turned, over an aircraft flying level
NextView ==
    \/ Update(StepMs)
    \/ \E x, y \in RotateInputs : FreeLook(x, y)
    \/ Chase
    \/ GetView

SpecView == Init /\ [][NextView]_vars

\* The main loop calls updateView once per tick for as long as the window has focus.
Settle == UpdateView(StepMs)

\* The camera left to follow an aircraft that is flown a bounded number of turns
NextTrack ==
    \/ \E d \in Directions : Elevate(d)
    \/ Flight
    \/ Settle

SpecTrack == Init /\ [][NextTrack]_vars /\ WF_vars(Settle)

\* main(): the event loop
NextMain ==
    \/ \E e \in Events : PollEvent(e)
    \/ EventsDone
    \/ CatchUp
    \/ \E key \in Keys : TakeInput(key)
    \/ Fly
    \/ Follow
    \/ PollView
    \/ Draw
    \/ \E late \in Lateness : Sleep(late)

SpecMain == Init /\ [][NextMain]_vars

\* the statements of the inner while loop, none of which waits; no key is held
Tick ==
    \/ CatchUp
    \/ TakeInput("None")
    \/ Fly
    \/ Follow
    \/ PollView
    \/ Draw

\* main(): the event loop, no key held
NextLoop ==
    \/ \E e \in Events : PollEvent(e)
    \/ EventsDone
    \/ Tick
    \/ \E late \in Lateness : Sleep(late)

\* The event loop with every statement of the inner loop returning
SpecMainFair == Init /\ [][NextLoop]_vars /\ WF_vars(Tick)

InitArgs ==
    /\ aircraft = AirplaneInit
    /\ camera = CameraInit(AirplaneInit.m_position, AirplaneInit.m_forward, AirplaneInit.m_up)
    /\ \E arguments \in CommandLines : main = ArgsInit(arguments)
    /\ hist = HistInit

\* main(), from its entry
NextArgs ==
    \/ ProcessArguments
    \/ ShowHelp
    \/ CreateWindow
    \/ NextMain

SpecArgs == InitArgs /\ [][NextArgs]_vars

(***************************************************************************)
(* Properties                                                              *)
(***************************************************************************)

\* C1: whatever throttle(+1)/throttle(-1) and update(dt) calls are made from the
\* initial state (speed 1.0), the target speed stays within [0, 3].
C1_SpeedWithinClamp ==
    /\ aircraft.m_speed >= SpeedMin * SpeedScale
    /\ aircraft.m_speed <= SpeedMax * SpeedScale

\* an update that left the speed at the upper clamp
C1_Witness ==
    /\ hist.op = "update"
    /\ aircraft.m_speed = SpeedMax * SpeedScale

\* C2: when update(dt) has returned, the aileron, elevator and throttle deltas are
\* all zero, whatever they were when it was entered.
C2_DeltasClearedByUpdate ==
    hist.op = "update" =>
        /\ aircraft.m_aileron = 0
        /\ aircraft.m_elevator = 0
        /\ aircraft.m_throttle = 0

\* an update entered with all three deltas pending
C2_Witness ==
    /\ hist.op = "update"
    /\ hist.pending = 3
    /\ aircraft.m_aileron = 0 /\ aircraft.m_elevator = 0 /\ aircraft.m_throttle = 0

\* C3: a getView() that follows a getView() with no rotate() or updateView()
\* between returns the same view transform and does not recompute it, also when
\* Airplane::update ran between the two.
C3_RepeatedGetViewIsCached ==
    hist.view.repeat => hist.view.same /\ ~hist.view.recomputed

\* the second of two getView calls with an Airplane::update between, which moved
\* the aircraft away from the camera's stored position
C3_Witness ==
    /\ hist.op = "getView"
    /\ hist.view.repeat
    /\ hist.view.between
    /\ aircraft.m_position # camera.m_position

\* C4 as claimed: an updateView(dt) that finds delta zero leaves viewChanged() false.
C4_Original ==
    (hist.op = "updateView" /\ hist.entry.zero) => ~camera.m_viewChanged

\* C4: an updateView(dt) that finds delta zero still leaves viewChanged() true.
C4_ViewDirtyAfterSettledUpdate ==
    (hist.op = "updateView" /\ hist.entry.zero) => camera.m_viewChanged

\* an updateView that found delta zero, the camera stationary and the view clean
C4_Witness ==
    /\ hist.op = "updateView"
    /\ hist.entry.zero
    /\ hist.entry.state = "STATIONARY"
    /\ ~hist.entry.dirty
    /\ camera.m_viewChanged

\* C5: from the updateView that finds the camera stationary and |delta| >= 1e-4,
\* and with no rotate() since, the look-direction is as that call found it after
\* every updateView made before 0.5 s of dt have accumulated, and the first
\* updateView entered with the timer run out brings it nearer the forward direction
\* (or finds delta zero).
C5_DebounceHoldsThenCorrects ==
    (hist.jump.phase # "none" /\ ~hist.jump.rotated) =>
        /\ hist.jump.elapsed < DebounceMs => camera.m_direction = hist.jump.dir
        /\ hist.jump.phase = "corrected" => hist.jump.closer

\* the first correction of a debounce cycle, made after more than 0.5 s
C5_Witness ==
    /\ hist.op = "updateView"
    /\ hist.jump.phase = "corrected"
    /\ ~hist.jump.rotated
    /\ hist.jump.elapsed >= DebounceMs
    /\ hist.jump.closer
    /\ camera.m_direction # hist.jump.dir

\* unit length, within 1e-4
IsUnit(v) ==
    /\ ~IsNaN(v)
    /\ LenSq(v) >= (Scale - Epsilon) * (Scale - Epsilon)
    /\ LenSq(v) <= (Scale + Epsilon) * (Scale + Epsilon)

\* C6: the camera's look-direction has unit length in every reachable state.
C6_LookDirectionIsUnit == IsUnit(camera.m_direction)

\* C7: with no rotate() call, every updateView(dt) that finds the debounce timer run
\* out and the camera not stationary leaves the look-direction strictly nearer the
\* forward direction the aircraft has during the call, unless it was on it already, in
\* which case it stays there; and once the aircraft's forward direction changes no
\* more, a camera that is tracking eventually is stationary with its look-direction
\* equal to the forward direction.
C7_TrackingClosesThenSettles ==
    /\ [][(hist'.op = "updateView" /\ CameraState(camera) = "TRACKING")
            => LET d0 == DeltaDirection(camera, aircraft)
                   d1 == DeltaDirection(camera', aircraft')
               IN  IF d0 = <<0, 0, 0>> THEN d1 = <<0, 0, 0>>
                   ELSE LenSq(d1) < LenSq(d0)]_vars
    /\ (CameraState(camera) = "TRACKING")
          ~> (camera.m_stationary /\ camera.m_direction = aircraft.m_forward)

\* a camera that went through the whole correction: several tracking calls, the last
\* of which found it on target and made it stationary
C7_Witness ==
    /\ hist.op = "updateView"
    /\ hist.entry.state = "TRACKING"
    /\ hist.entry.zero
    /\ hist.tracks = MaxTracks
    /\ camera.m_stationary
    /\ camera.m_direction = aircraft.m_forward
    /\ camera.m_direction # <<Scale, 0, 0>>

\* an updateView call and what it found
ChaseStep == hist'.op = "updateView"
SmallDelta == LenLess(DeltaDirection(camera, aircraft), Epsilon)

\* C8 as claimed: an updateView(dt) that finds |delta| < 1e-4 leaves the
\* look-direction unchanged and the camera stationary, whatever state it was in.
C8_Original ==
    [][(ChaseStep /\ SmallDelta) =>
          /\ camera'.m_direction = camera.m_direction
          /\ camera'.m_stationary]_vars

\* C8: an updateView(dt) that finds |delta| < 1e-4 and the timer not running
\* leaves the camera stationary with the look-direction moved by less than 1e-4
\* (not at all if it was stationary); one that finds the timer running only
\* decrements it: the look-direction is unchanged, the camera not stationary.
C8_SmallDeltaSettlesUnlessDebouncing ==
    [][(ChaseStep /\ SmallDelta) =>
          IF camera.m_timer > 0
          THEN /\ camera'.m_direction = camera.m_direction
               /\ ~camera'.m_stationary
               /\ camera'.m_timer < camera.m_timer
          ELSE /\ camera'.m_stationary
               /\ LenLess(VSub(camera'.m_direction, camera.m_direction), Epsilon)
               /\ camera.m_stationary => camera'.m_direction = camera.m_direction]_vars

\* an updateView that found the camera tracking and 0 < |delta| < 1e-4
C8_Witness ==
    /\ hist.op = "updateView"
    /\ hist.entry.state = "TRACKING"
    /\ hist.entry.small
    /\ ~hist.entry.zero
    /\ camera.m_stationary
    /\ camera.m_direction = aircraft.m_forward

\* C9: the only changes of state an updateView(dt) makes are STATIONARY ->
\* DEBOUNCING (only with |delta| >= 1e-4, the timer set to 0.5 s, no correction),
\* DEBOUNCING -> TRACKING (only by the timer running out) and TRACKING ->
\* STATIONARY (only with |delta| < 1e-4).
C9_StateMachine ==
    [][ChaseStep =>
          LET from == CameraState(camera)
              to == CameraState(camera')
          IN  \/ from = to
              \/ /\ from = "STATIONARY" /\ to = "DEBOUNCING"
                 /\ ~SmallDelta
                 /\ camera'.m_timer = DebounceMs
                 /\ camera'.m_direction = camera.m_direction
              \/ /\ from = "DEBOUNCING" /\ to = "TRACKING"
                 /\ camera'.m_timer < camera.m_timer
                 /\ camera'.m_timer <= 0
                 /\ camera'.m_direction = camera.m_direction
              \/ /\ from = "TRACKING" /\ to = "STATIONARY"
                 /\ SmallDelta]_vars

\* the timer of a debounce has just run out
C9_Witness ==
    /\ hist.op = "updateView"
    /\ hist.entry.state = "DEBOUNCING"
    /\ CameraState(camera) = "TRACKING"
    /\ hist.jump.phase = "waiting"

\* C10: in every tick of the main loop the calls are takeInput, then Airplane::update,
\* then Camera::updateView, each with dt = frame_period, and when the view is read
\* in a tick (getView after the viewChanged poll) the camera's stored position, and
\* the centre of the view handed to the renderer, is the aircraft position that the
\* same tick's update produced.
C10_TickOrderAndFreshPosition ==
    LET calls == [i \in 1..Len(main.tick) |-> main.tick[i].call]
        order == <<"takeInput", "update", "updateView", "getView">>
    IN  /\ Len(calls) <= 4
        /\ \A i \in 1..Len(calls) : calls[i] = order[i] /\ main.tick[i].dt = FramePeriodMs
        /\ main.pc = "update" => Len(calls) = 1
        /\ main.pc = "updateView" => Len(calls) = 2
        /\ main.pc = "view" => Len(calls) = 3
        /\ main.pc = "draw" => Len(calls) >= 3
        /\ Len(calls) = 4 =>
              /\ camera.m_position = main.tick[2].at
              /\ camera.m_position = aircraft.m_position
              /\ main.view.center = main.tick[2].at

\* a second tick of one pass (catching up) has read the view after the aircraft moved on
C10_Witness ==
    /\ main.pc = "draw"
    /\ Len(main.tick) = 4
    /\ main.prev_time >= FramePeriodMs
    /\ main.tick[2].at # main.tick[1].at
    /\ main.view.center = aircraft.m_position
    /\ aircraft.m_position # StartPosition

\* C11: an update(dt) entered with zero velocity leaves velocity and position
\* numeric (the drag term is zero, no zero-length vector is normalized); as do all
\* other updates.
C11_StalledUpdateStaysNumeric ==
    hist.op = "update" => ~IsNaN(aircraft.m_velocity) /\ ~IsNaN(aircraft.m_position)

\* |x| within 1e-5
Negligible(x) == Abs(x) <= FineScale \div 100000

\* C12: after every update(dt) the aircraft's forward, left and up vectors (the
\* normalized columns of m_rotationMatrix) are unit length and mutually orthogonal,
\* within 1e-5.
C12_FrameOrthonormal ==
    LET orthonormal[frame \in Seq(Seq(Int))] ==
            /\ \A i \in 1..3 : Negligible(FineDot(frame[i], frame[i]) - FineScale)
            /\ Negligible(FineDot(frame[1], frame[2]))
            /\ Negligible(FineDot(frame[1], frame[3]))
            /\ Negligible(FineDot(frame[2], frame[3]))
    IN  hist.op = "update" => orthonormal[Refresh(aircraft.m_rotationMatrix)]

\* C13: with throttle(+1) before every update(dt) the target speed never decreases
\* from tick to tick, reaches 3.0 and stays there; with throttle(-1) before every
\* update(dt) it never increases, reaches 0 and stays there.
C13_SustainedThrottleReachesLimit ==
    /\ [][/\ hist.held = 1 => aircraft'.m_speed >= aircraft.m_speed
          /\ hist.held = -1 => aircraft'.m_speed <= aircraft.m_speed]_vars
    /\ <>[](\/ hist.held = 1 /\ aircraft.m_speed = SpeedMax * SpeedScale
            \/ hist.held = -1 /\ aircraft.m_speed = SpeedMin * SpeedScale)

C13_Witness ==
    /\ hist.held = 1
    /\ hist.op = "update"
    /\ hist.pending = 1
    /\ aircraft.m_speed = SpeedMax * SpeedScale

\* C14: the view is dirty right after construction; every rotate(dx, dy), also
\* rotate(0, 0), and every updateView(dt) leaves it dirty; getView() leaves it
\* clean; no other operation changes the flag.
C14_DirtyFlagProtocol ==
    /\ camera.m_viewChanged
    /\ [][/\ hist'.op \in {"rotate", "updateView"} => camera'.m_viewChanged
          /\ hist'.op = "getView" => ~camera'.m_viewChanged
          /\ hist'.op \notin {"rotate", "updateView", "getView"}
                => camera'.m_viewChanged = camera.m_viewChanged]_vars

\* rotate(0, 0) called on a clean view
C14_Witness ==
    /\ hist.op = "rotate"
    /\ hist.still
    /\ camera.m_viewChanged

\* main() has not got past printing the help text: no window, no tick, and once it
\* has left, it has left with EXIT_SUCCESS
HelpOnly ==
    /\ main.pc \in {"arguments", "options", "exit"}
    /\ main.pc # "arguments" => main.opts.showHelp
    /\ main.pc = "exit" => main.status = "EXIT_SUCCESS"
    /\ ~main.window
    /\ main.tick = <<>>

HelpArguments == {<<"-", "h">>, <<"-", "-", "h", "e", "l", "p">>}
ValueOptions == {<<"-", "w">>, <<"-", "H">>, <<"-", "s">>}

\* argument i is read as the value of the -w, -H or -s before it
RECURSIVE IsValue(_, _)
IsValue(arguments, i) ==
    /\ i > 1
    /\ arguments[i - 1] \in ValueOptions
    /\ ~IsValue(arguments, i - 1)

\* C15 as claimed: with -h or --help anywhere on the command line, main() sets
\* showHelp, prints the help and exits successfully, with no window and no tick.
C15_Original ==
    (\E i \in DOMAIN main.args : main.args[i] \in HelpArguments) => HelpOnly

\* C15: with a -h or --help on the command line that is not read as the value of a
\* -w, -H or -s directly before it, main() sets showHelp, prints the help and
\* exits successfully, with no window and no tick, whatever the other arguments.
C15_HelpReadAsOptionExits ==
    (\E i \in DOMAIN main.args : main.args[i] \in HelpArguments /\ ~IsValue(main.args, i))
        => HelpOnly

\* main() left after the help, which followed other options and was followed by one
C15_Witness ==
    /\ main.pc = "exit"
    /\ main.status = "EXIT_SUCCESS"
    /\ Len(main.args) = 3
    /\ main.args[1] \notin HelpArguments
    /\ main.args[2] \in HelpArguments
    /\ ~IsValue(main.args, 2)

\* |v| = len, within 1e-4
LenIs(v, len) ==
    /\ LenSq(v) >= Max(0, len - Epsilon) * Max(0, len - Epsilon)
    /\ LenSq(v) <= (len + Epsilon) * (len + Epsilon)

\* C16: an updateView(dt) that finds the camera tracking moves the look-direction
\* onto the aircraft's forward direction if |delta| < 0.2*dt, and otherwise by
\* 0.2*dt along delta (|delta| is 0.2*dt less after the call); one that finds
\* it stationary or the debounce timer running does not move it; no call moves
\* it by more than 0.2*dt.
C16_StepWithinBudget ==
    [][ChaseStep =>
          LET delta == DeltaDirection(camera, aircraft)
              moved == VSub(camera'.m_direction, camera.m_direction)
              left == VSub(aircraft.m_forward, camera'.m_direction)
          IN  /\ LenSq(moved) <= (LenDelta(StepMs) + Epsilon) * (LenDelta(StepMs) + Epsilon)
              /\ IF CameraState(camera) # "TRACKING"
                 THEN camera'.m_direction = camera.m_direction
                 ELSE IF LenLess(delta, LenDelta(StepMs))
                 THEN camera'.m_direction = aircraft.m_forward
                 ELSE /\ LenIs(moved, LenDelta(StepMs))
                      /\ LenIs(left, Length(delta) - LenDelta(StepMs))]_vars

\* an updateView that found the camera tracking, |delta| >= 0.2*dt, and moved the
\* look-direction part of the way
C16_Witness ==
    /\ hist.op = "updateView"
    /\ hist.entry.state = "TRACKING"
    /\ ~hist.entry.small
    /\ LenAtLeast(DeltaDirection(camera, aircraft), LenDelta(StepMs))

\* C17: the debounce timer is set (to 0.5 s) only by an updateView(dt) that finds
\* the camera stationary and |delta| >= 1e-4; no other call changes it, and an
\* updateView that finds the timer running or the camera tracking never raises it,
\* whatever rotate() and the aircraft did before: the first correction of a
\* debounce comes as soon as 0.5 s of dt are up, and an updateView that finds the
\* camera tracking and |delta| >= 1e-4 moves the look-direction in that very call.
C17_TimerArmedOnlyFromStationary ==
    [][/\ camera'.m_timer > camera.m_timer =>
             /\ ChaseStep
             /\ CameraState(camera) = "STATIONARY"
             /\ ~SmallDelta
             /\ camera'.m_timer = DebounceMs
       /\ ~ChaseStep => camera'.m_timer = camera.m_timer
       /\ (ChaseStep /\ CameraState(camera) = "TRACKING" /\ ~SmallDelta) =>
             /\ camera'.m_direction # camera.m_direction
             /\ camera'.m_timer = camera.m_timer
       /\ hist'.jump.phase = "corrected" => hist'.jump.elapsed < DebounceMs + 2 * StepMs]_vars

\* the aircraft's forward direction or the look-direction changed while the camera
\* was tracking, and the next updateView moved the look-direction, the timer not
\* running
C17_Witness ==
    /\ hist.op = "updateView"
    /\ hist.swerve = "followed"
    /\ hist.entry.state = "TRACKING"
    /\ ~hist.entry.small
    /\ camera.m_timer <= 0

\* C18: an update(dt) that finds a throttle command pending changes the target
\* speed by 0.5 * dt times the command (+1 after one throttle(+1) call), clamped to
\* [0, 3], and consumes the command; an update(dt) that finds none pending, as every
\* later one does until throttle is called again, leaves the target speed unchanged.
C18_ThrottleConsumedOnce ==
    [][hist'.op = "update" =>
          /\ aircraft'.m_throttle = 0
          /\ aircraft'.m_speed =
                IF aircraft.m_throttle = 0 THEN aircraft.m_speed
                ELSE Min(Max(SpeedMin * SpeedScale,
                             aircraft.m_speed + (aircraft.m_throttle * StepMs * SpeedScale) \div 2000),
                         SpeedMax * SpeedScale)]_vars

\* an update that found no throttle command, after one that had consumed a throttle(+1)
C18_Witness ==
    /\ hist.op = "update"
    /\ hist.pending = 0
    /\ aircraft.m_speed = SpeedScale + (StepMs * SpeedScale) \div 2000

\* C19: in every state of the camera a running debounce timer (m_timer > 0) goes
\* with m_stationary false, the timer is at most 0.5 s, and it is above -dt: it is
\* not decremented once it is zero or less.
C19_TimerInvariants ==
    /\ camera.m_timer > 0 => ~camera.m_stationary
    /\ camera.m_timer <= DebounceMs
    /\ camera.m_timer > -StepMs

\* the timer has run out below zero and the camera, tracking, was updated again
C19_Witness ==
    /\ hist.op = "updateView"
    /\ hist.entry.state = "TRACKING"
    /\ camera.m_timer < 0
    /\ ~camera.m_stationary

\* main() is inside a tick
InTick == main.pc \in {"takeInput", "update", "updateView", "view", "draw"}

\* no tick while the window lacks focus; the time base is not before the last
\* GainedFocus, so that no tick is run for time that passed before it
FocusRules ==
    /\ InTick => main.focus
    /\ main.prev_time >= hist.regained
    /\ main.pc \in {"catchup", "sleep"} \cup {"takeInput", "update", "updateView", "view", "draw"}
          => main.now >= main.prev_time

\* C20 as claimed: no tick runs while the window lacks focus, regaining focus
\* resets the time base, and the catch-up loop leaves less than one frame period of
\* elapsed time unprocessed.
C20_Original ==
    /\ FocusRules
    /\ (main.pc = "sleep" /\ main.focus) => main.now - main.prev_time < FramePeriodMs

\* C20: no tick runs while the window lacks focus; regaining focus resets the time
\* base, so that no tick is run for the time spent unfocused; the catch-up loop of
\* one outer iteration always terminates, and with the window in focus it leaves at
\* most one frame period of elapsed time unprocessed.
C20_CatchUpBounded ==
    /\ [](/\ FocusRules
          /\ (main.pc = "sleep" /\ main.focus) => main.now - main.prev_time <= FramePeriodMs)
    /\ [][/\ InTick => main'.now = main.now /\ main'.focus = main.focus
          /\ (main.pc = "draw" /\ main'.pc # "draw")
                => main'.prev_time = main.prev_time + FramePeriodMs]_vars
    /\ (main.pc = "catchup") ~> (main.pc = "sleep")

\* after a GainedFocus the catch-up loop has run a tick and left a whole frame period
C20_Witness ==
    /\ main.pc = "sleep"
    /\ main.focus
    /\ main.now - main.prev_time = FramePeriodMs
    /\ hist.regained > 0
    /\ Len(main.tick) >= 3

====
